---- MODULE Spec2Model ----
(***************************************************************************)
(* Model of crates/extrinsics/src/extrinsic_opts.rs: the builder of        *)
(* ExtrinsicOpts, the finished options value with its accessors, and the   *)
(* chain resolution of chain_and_endpoint.                                 *)
(*                                                                         *)
(* Strings that the program compares or returns are modelled as sequences  *)
(* of tokens, e.g. "ws://localhost:9944/" is                               *)
(* <<"ws", "://", "localhost", ":", "9944", "/">>, so that two strings are *)
(* equal exactly when their token sequences are.  An Option<T> is a        *)
(* sequence of length at most one: None is <<>>, Some(v) is <<v>>.         *)
(***************************************************************************)
EXTENDS Naturals, Sequences, FiniteSets, TLC

VARIABLES
    phase,    \* "building": a builder exists; "done": done() consumed it
    builder,  \* the ExtrinsicOptsBuilder [opts |-> ...], NoBuilder once consumed
    opts,     \* the finished ExtrinsicOpts, NoOpts before done()
    ret,      \* what the last accessor call on the finished value returned
    ce0,      \* the first and the latest chain_and_endpoint result since done()
    signer0,  \* the signer that was handed to new()
    hist,     \* the last setter calls on this builder, at most two, as [op, arg]
    prev,     \* the builder's opts before the last setter call
    prev2,    \* the builder's opts before the calls of hist
    lastArg,  \* per setter, the argument of its last call: None if never called
    ncalls    \* number of setter calls made on the builder

vars == <<phase, builder, opts, ret, ce0, signer0, hist, prev, prev2, lastArg,
          ncalls>>

----------------------------------------------------------------------------
(* Bounds of the model *)

MaxCalls == 3

MaxBalance == 1

----------------------------------------------------------------------------
(* Option<T> *)

None == <<>>

Some(v) == <<v>>

IsSome(o) == Len(o) = 1

OptionOf(S) == {None} \cup {Some(v) : v \in S}

----------------------------------------------------------------------------
(* Input domains *)

Signers == {"alice", "bob"}

\* paths the caller may pass to file()
Files == {"a.contract", "b.contract"}

\* paths the caller may pass to manifest_path()
Manifests == {"Cargo.toml"}

Balances == 1..MaxBalance

Verbosities == {"Default", "Quiet", "Verbose"}

ProductionChains == {"AlephZero", "Astar"}

----------------------------------------------------------------------------
(* url::Url and its rendering *)

NoPort == "-"

\* the known default port of a scheme (Url::port_or_known_default)
KnownDefaultPort(scheme) ==
    CASE scheme = "ws" -> "80"
      [] scheme = "wss" -> "443"
      [] OTHER -> NoPort

\* Url::parse on a well-formed string <<scheme, "://", host [, ":", port] [, path]>>:
\* a port equal to the scheme's default is dropped, an empty path of a
\* ws/wss URL becomes "/".
UrlParse(s) ==
    LET hasPort == Len(s) >= 5 /\ s[4] = ":"
        rawPort == IF hasPort THEN s[5] ELSE NoPort
        pathAt  == IF hasPort THEN 6 ELSE 4
        rawPath == IF Len(s) >= pathAt THEN s[pathAt] ELSE ""
    IN  [scheme |-> s[1],
         host   |-> s[3],
         port   |-> IF rawPort = KnownDefaultPort(s[1]) THEN NoPort ELSE rawPort,
         path   |-> IF rawPath = "" THEN "/" ELSE rawPath]

\* Url::to_string: the serialisation, which omits a default port
UrlToString(u) ==
    <<u.scheme, "://", u.host>>
        \o (IF u.port = NoPort THEN <<>> ELSE <<":", u.port>>)
        \o <<u.path>>

\* crate::url_to_string: the serialisation with the default port made explicit
url_to_string(u) ==
    IF u.port = NoPort /\ KnownDefaultPort(u.scheme) # NoPort
    THEN <<u.scheme, "://", u.host, ":", KnownDefaultPort(u.scheme), u.path>>
    ELSE UrlToString(u)

\* the string literal of ExtrinsicOptsBuilder::new
DefaultUrlLiteral == <<"ws", "://", "localhost", ":", "9944">>

----------------------------------------------------------------------------
(* prod_chains::ProductionChain *)

\* ProductionChain::to_string (Display)
ChainToString(c) ==
    CASE c = "AlephZero" -> <<"Aleph Zero">>
      [] c = "Astar" -> <<"Astar">>

\* ProductionChain::end_point
end_point(c) ==
    CASE c = "AlephZero" -> <<"wss", "://", "ws.azero.dev", ":", "443", "/">>
      [] c = "Astar" -> <<"wss", "://", "rpc.astar.network", ":", "443", "/">>

\* ProductionChain::chain_by_endpoint: the chain whose endpoint is ep, if any
chain_by_endpoint(ep) ==
    IF \E c \in ProductionChains : end_point(c) = ep
    THEN Some(CHOOSE c \in ProductionChains : end_point(c) = ep)
    ELSE None

\* the URL strings the caller may convert and pass to url()
UrlInputs ==
    { DefaultUrlLiteral,
      <<"wss", "://", "ws.azero.dev">>,
      <<"wss", "://", "rpc.astar.network", ":", "443", "/">>,
      <<"ws", "://", "ws.azero.dev">>,
      <<"ws", "://", "127.0.0.1", ":", "9944", "/node">> }

Urls == {UrlParse(s) : s \in UrlInputs}

----------------------------------------------------------------------------
(* ContractArtifacts: the artifact loader and what it finds on disk *)

\* where the build of a manifest puts its contract bundle
BundleOf(manifest) == <<"target/ink", manifest>>

\* the manifest used when none is given
DefaultManifest == "Cargo.toml"

ArtifactPaths == Files \cup {BundleOf(m) : m \in Manifests \cup {DefaultManifest}}

\* the states of the file system the loader may find
Disks ==
    { [p \in ArtifactPaths |->
          IF p = "a.contract" THEN "verifiable"
          ELSE IF p = "b.contract" THEN "corrupt" ELSE "plain"],
      [p \in ArtifactPaths |->
          IF p = "a.contract" THEN "missing"
          ELSE IF p = "b.contract" THEN "plain" ELSE "missing"],
      [p \in ArtifactPaths |->
          IF p = "a.contract" THEN "plain"
          ELSE IF p = "b.contract" THEN "verifiable" ELSE "verifiable"] }

Ok(v) == [ok |-> TRUE, val |-> <<v>>, err |-> ""]

Err(e) == [ok |-> FALSE, val |-> <<>>, err |-> e]

\* ContractArtifacts::from_manifest_or_file on the file system `disk`
from_manifest_or_file(manifest_path, file, disk) ==
    IF IsSome(manifest_path) /\ IsSome(file)
    THEN Err("AmbiguousManifestAndFile")
    ELSE LET path == IF IsSome(file) THEN file[1]
                     ELSE IF IsSome(manifest_path) THEN BundleOf(manifest_path[1])
                     ELSE BundleOf(DefaultManifest)
         IN  CASE disk[path] = "missing" -> Err("ArtifactNotFound")
               [] disk[path] = "corrupt" -> Err("ArtifactParseError")
               [] OTHER -> Ok([path |-> path,
                               verifiable |-> disk[path] = "verifiable"])

\* ContractArtifacts::is_verifiable
artifact_is_verifiable(artifact) == artifact.verifiable

----------------------------------------------------------------------------
(* ExtrinsicOptsBuilder *)

Fields == {"file", "manifest_path", "url", "signer", "storage_deposit_limit",
           "verbosity", "chain"}

\* the fields whose setter takes an Option
OptionalFields == {"file", "manifest_path", "storage_deposit_limit", "chain"}

\* Into<PathBuf> for a path given as a string
IntoPathBuf(p) == p

\* Option::map with Into<PathBuf>::into
MapIntoPathBuf(o) == IF IsSome(o) THEN Some(IntoPathBuf(o[1])) ELSE None

\* new() with the old RPC port as the default node
Builder_new_OldPort(signer) ==
    [opts |-> [file |-> None,
               manifest_path |-> None,
               url |-> UrlParse(<<"ws", "://", "localhost", ":", "9933">>),
               signer |-> signer,
               storage_deposit_limit |-> None,
               verbosity |-> "Default",
               chain |-> None]]

Builder_new(signer) ==
    [opts |-> [file |-> None,
               manifest_path |-> None,
               url |-> UrlParse(DefaultUrlLiteral),
               signer |-> signer,
               storage_deposit_limit |-> None,
               verbosity |-> "Default",
               chain |-> None]]

\* file() that assigns only when a path is given
Builder_file_IfSome(b, file) ==
    IF IsSome(file)
    THEN [b EXCEPT !.opts.file = MapIntoPathBuf(file)]
    ELSE b

Builder_file(b, file) ==
    [b EXCEPT !.opts.file = MapIntoPathBuf(file)]

Builder_manifest_path(b, manifest_path) ==
    [b EXCEPT !.opts.manifest_path = MapIntoPathBuf(manifest_path)]

\* url() that also forgets the named chain
Builder_url_ClearsChain(b, u) ==
    [b EXCEPT !.opts.url = u, !.opts.chain = None]

Builder_url(b, u) ==
    [b EXCEPT !.opts.url = u]

\* storage_deposit_limit() that falls back to the limit already stored
Builder_storage_deposit_limit_Or(b, storage_deposit_limit) ==
    [b EXCEPT !.opts.storage_deposit_limit =
        IF IsSome(storage_deposit_limit) THEN storage_deposit_limit ELSE @]

Builder_storage_deposit_limit(b, storage_deposit_limit) ==
    [b EXCEPT !.opts.storage_deposit_limit = storage_deposit_limit]

Builder_verbosity(b, verbosity) ==
    [b EXCEPT !.opts.verbosity = verbosity]

Builder_chain(b, chain) ==
    [b EXCEPT !.opts.chain = chain]

\* done() that fills in the manifest when neither path was given
Builder_done_FillsManifest(b) ==
    IF b.opts.file = None /\ b.opts.manifest_path = None
    THEN [b.opts EXCEPT !.manifest_path = Some(DefaultManifest)]
    ELSE b.opts

Builder_done(b) == b.opts

Setters == {"file", "manifest_path", "url", "storage_deposit_limit",
            "verbosity", "chain"}

\* the setter named op, called with arg on builder b
Apply(op, arg, b) ==
    CASE op = "file" -> Builder_file(b, arg)
      [] op = "manifest_path" -> Builder_manifest_path(b, arg)
      [] op = "url" -> Builder_url(b, arg)
      [] op = "storage_deposit_limit" -> Builder_storage_deposit_limit(b, arg)
      [] op = "verbosity" -> Builder_verbosity(b, arg)
      [] op = "chain" -> Builder_chain(b, arg)

----------------------------------------------------------------------------
(* ExtrinsicOpts: the accessors *)

contract_artifacts(o, disk) ==
    from_manifest_or_file(o.manifest_path, o.file, disk)

file(o) == o.file

manifest_path(o) == o.manifest_path

url(o) == url_to_string(o.url)

Production(name) == <<"Production", name>>

Custom == <<"Custom">>

\* chain_and_endpoint that tries the node URL before the named chain
chain_and_endpoint_UrlFirst(o) ==
    LET u == url(o)
        found == chain_by_endpoint(u)
    IN  IF IsSome(found)
        THEN [chain |-> Production(ChainToString(found[1])),
              endpoint |-> end_point(found[1])]
        ELSE IF IsSome(o.chain)
        THEN [chain |-> Production(ChainToString(o.chain[1])),
              endpoint |-> end_point(o.chain[1])]
        ELSE [chain |-> Custom, endpoint |-> u]

\* chain_and_endpoint that looks up self.url.to_string() instead of self.url()
chain_and_endpoint_PlainLookup(o) ==
    IF IsSome(o.chain)
    THEN [chain |-> Production(ChainToString(o.chain[1])),
          endpoint |-> end_point(o.chain[1])]
    ELSE LET u == UrlToString(o.url)
             found == chain_by_endpoint(u)
         IN  IF IsSome(found)
             THEN [chain |-> Production(ChainToString(found[1])),
                   endpoint |-> end_point(found[1])]
             ELSE [chain |-> Custom, endpoint |-> url(o)]

\* chain_and_endpoint whose Custom branch returns self.url.to_string()
chain_and_endpoint_PlainCustom(o) ==
    IF IsSome(o.chain)
    THEN [chain |-> Production(ChainToString(o.chain[1])),
          endpoint |-> end_point(o.chain[1])]
    ELSE LET u == url(o)
             found == chain_by_endpoint(u)
         IN  IF IsSome(found)
             THEN [chain |-> Production(ChainToString(found[1])),
                   endpoint |-> end_point(found[1])]
             ELSE [chain |-> Custom, endpoint |-> UrlToString(o.url)]

\* chain_and_endpoint that honours the named chain only for a manifest build
chain_and_endpoint_ManifestOnly(o) ==
    IF IsSome(o.chain) /\ o.file = None
    THEN [chain |-> Production(ChainToString(o.chain[1])),
          endpoint |-> end_point(o.chain[1])]
    ELSE LET u == url(o)
             found == chain_by_endpoint(u)
         IN  IF IsSome(found)
             THEN [chain |-> Production(ChainToString(found[1])),
                   endpoint |-> end_point(found[1])]
             ELSE [chain |-> Custom, endpoint |-> u]

chain_and_endpoint(o) ==
    IF IsSome(o.chain)
    THEN [chain |-> Production(ChainToString(o.chain[1])),
          endpoint |-> end_point(o.chain[1])]
    ELSE LET u == url(o)
             found == chain_by_endpoint(u)
         IN  IF IsSome(found)
             THEN [chain |-> Production(ChainToString(found[1])),
                   endpoint |-> end_point(found[1])]
             ELSE [chain |-> Custom, endpoint |-> u]

\* is_verifiable that answers false where the artifact cannot be loaded
is_verifiable_OrFalse(o, disk) ==
    LET r == contract_artifacts(o, disk)
    IN  IF r.ok THEN Ok(artifact_is_verifiable(r.val[1])) ELSE Ok(FALSE)

\* the ? operator passes the loader's error on, Ok wraps the flag
is_verifiable(o, disk) ==
    LET r == contract_artifacts(o, disk)
    IN  IF r.ok THEN Ok(artifact_is_verifiable(r.val[1])) ELSE Err(r.err)

signer(o) == o.signer

storage_deposit_limit(o) == o.storage_deposit_limit

verbosity(o) == o.verbosity

----------------------------------------------------------------------------
(* The state machine: one builder is created, set up by setter calls and    *)
(* consumed by done(); the finished value is then read through accessors.   *)

NoBuilder == "consumed"

NoOpts == "not built"

NoRet == [op |-> "none", val |-> <<>>]

Start(s) ==
    /\ phase = "building"
    /\ builder = Builder_new(s)
    /\ opts = NoOpts
    /\ ret = NoRet
    /\ ce0 = <<>>
    /\ signer0 = s
    /\ hist = <<>>
    /\ prev = Builder_new(s).opts
    /\ prev2 = Builder_new(s).opts
    /\ lastArg = [f \in Setters |-> None]
    /\ ncalls = 0

Init == \E s \in Signers : Start(s)

\* ExtrinsicOptsBuilder::new for the next extrinsic
New ==
    /\ phase = "done"
    /\ \E s \in Signers :
        /\ phase' = "building"
        /\ builder' = Builder_new(s)
        /\ opts' = NoOpts
        /\ ret' = NoRet
        /\ ce0' = <<>>
        /\ signer0' = s
        /\ hist' = <<>>
        /\ prev' = Builder_new(s).opts
        /\ prev2' = Builder_new(s).opts
        /\ lastArg' = [f \in Setters |-> None]
        /\ ncalls' = 0

SetterCall(op, arg, b) ==
    /\ phase = "building"
    /\ ncalls < MaxCalls
    /\ builder' = b
    /\ hist' = IF hist = <<>> THEN <<[op |-> op, arg |-> arg]>>
               ELSE <<hist[Len(hist)], [op |-> op, arg |-> arg]>>
    /\ prev' = builder.opts
    /\ prev2' = prev
    /\ lastArg' = [lastArg EXCEPT ![op] = Some(arg)]
    /\ ncalls' = ncalls + 1
    /\ UNCHANGED <<phase, opts, ret, ce0, signer0>>

SetFile ==
    \E v \in OptionOf(Files) : SetterCall("file", v, Builder_file(builder, v))

SetManifestPath ==
    \E v \in OptionOf(Manifests) :
        SetterCall("manifest_path", v, Builder_manifest_path(builder, v))

SetUrl ==
    \E u \in Urls : SetterCall("url", u, Builder_url(builder, u))

SetStorageDepositLimit ==
    \E v \in OptionOf(Balances) :
        SetterCall("storage_deposit_limit", v,
                   Builder_storage_deposit_limit(builder, v))

SetVerbosity ==
    \E v \in Verbosities : SetterCall("verbosity", v, Builder_verbosity(builder, v))

SetChain ==
    \E c \in OptionOf(ProductionChains) :
        SetterCall("chain", c, Builder_chain(builder, c))

Done ==
    /\ phase = "building"
    /\ phase' = "done"
    /\ opts' = Builder_done(builder)
    /\ builder' = NoBuilder
    /\ hist' = <<>>
    /\ prev' = Builder_done(builder)
    /\ prev2' = Builder_done(builder)
    /\ lastArg' = [f \in Setters |-> None]
    /\ UNCHANGED <<ret, ce0, signer0, ncalls>>

\* an accessor takes &self: it returns a value and assigns nothing
Accessor(op, val) ==
    /\ phase = "done"
    /\ ret' = [op |-> op, val |-> val]
    /\ UNCHANGED <<phase, builder, opts, ce0, signer0, hist, prev, prev2,
                   lastArg, ncalls>>

CallFile == Accessor("file", file(opts))

CallManifestPath == Accessor("manifest_path", manifest_path(opts))

CallUrl == Accessor("url", url(opts))

CallSigner == Accessor("signer", signer(opts))

CallStorageDepositLimit ==
    Accessor("storage_deposit_limit", storage_deposit_limit(opts))

CallVerbosity == Accessor("verbosity", verbosity(opts))

CallChainAndEndpoint ==
    /\ phase = "done"
    /\ ret' = [op |-> "chain_and_endpoint", val |-> chain_and_endpoint(opts)]
    /\ ce0' = IF ce0 = <<>> THEN <<chain_and_endpoint(opts)>>
              ELSE <<ce0[1], chain_and_endpoint(opts)>>
    /\ UNCHANGED <<phase, builder, opts, signer0, hist, prev, prev2, lastArg,
                   ncalls>>

CallContractArtifacts ==
    \E d \in Disks :
        Accessor("contract_artifacts",
                 [disk |-> d, res |-> contract_artifacts(opts, d)])

CallIsVerifiable ==
    \E d \in Disks :
        Accessor("is_verifiable", [disk |-> d, res |-> is_verifiable(opts, d)])

Next ==
    \/ New
    \/ SetFile
    \/ SetManifestPath
    \/ SetUrl
    \/ SetStorageDepositLimit
    \/ SetVerbosity
    \/ SetChain
    \/ Done
    \/ CallFile
    \/ CallManifestPath
    \/ CallUrl
    \/ CallSigner
    \/ CallStorageDepositLimit
    \/ CallVerbosity
    \/ CallChainAndEndpoint
    \/ CallContractArtifacts
    \/ CallIsVerifiable

Spec == Init /\ [][Next]_vars

----------------------------------------------------------------------------
(* Properties *)

\* the result chain_and_endpoint gives for production chain c
ProductionResult(c) ==
    [chain |-> Production(ChainToString(c)), endpoint |-> end_point(c)]

\* the last call of chain_and_endpoint returned r
Returned(r) == ret.op = "chain_and_endpoint" /\ ret.val = r

CalledChainAndEndpoint == phase = "done" /\ ret.op = "chain_and_endpoint"

\* the last setter call on the builder
LastCall == hist[Len(hist)]

\* the value a setter stores in its field when called with arg
Stored(op, arg) ==
    IF op \in {"file", "manifest_path"} THEN MapIntoPathBuf(arg) ELSE arg

\* C1: with the named chain set to a production chain N, chain_and_endpoint
\* returns (Production(name of N), endpoint of N), and replacing the stored
\* node URL by any other URL changes neither component.
C1_NamedChainWins ==
    (CalledChainAndEndpoint /\ IsSome(opts.chain)) =>
        /\ ret.val = ProductionResult(opts.chain[1])
        /\ \A u \in Urls :
              chain_and_endpoint([opts EXCEPT !.url = u]) = ret.val

\* a named chain together with the endpoint of another production chain
C1_Witness ==
    /\ CalledChainAndEndpoint
    /\ opts.chain = Some("AlephZero")
    /\ url(opts) = end_point("Astar")

\* C2: with no named chain and a rendered node URL that the registry matches
\* to chain M, chain_and_endpoint returns (Production(name of M), endpoint of
\* M); a node URL parsed from an endpoint string of the registry gives back
\* that same string.
C2_UrlMatch ==
    (CalledChainAndEndpoint /\ opts.chain = None) =>
        /\ IsSome(chain_by_endpoint(url(opts))) =>
              ret.val = ProductionResult(chain_by_endpoint(url(opts))[1])
        /\ \A m \in ProductionChains :
              opts.url = UrlParse(end_point(m)) =>
                  ret.val = ProductionResult(m)

\* the node URL was given as the endpoint string of Astar
C2_Witness ==
    /\ CalledChainAndEndpoint
    /\ opts.chain = None
    /\ opts.url = UrlParse(end_point("Astar"))
    /\ ret.val.endpoint = end_point("Astar")

\* C3: with no named chain and a rendered node URL that the registry does not
\* match, chain_and_endpoint returns (Custom, url()); and Custom is returned
\* in no other case.
C3_CustomFallback ==
    CalledChainAndEndpoint =>
        /\ (opts.chain = None /\ chain_by_endpoint(url(opts)) = None) =>
              ret.val = [chain |-> Custom, endpoint |-> url(opts)]
        /\ ret.val.chain = Custom =>
              (opts.chain = None /\ chain_by_endpoint(url(opts)) = None)

\* a custom node whose URL leaves the port to the scheme's default
C3_Witness ==
    /\ CalledChainAndEndpoint
    /\ opts.chain = None
    /\ opts.url = UrlParse(<<"ws", "://", "ws.azero.dev">>)
    /\ ret.val.chain = Custom

\* options built by new(signer) followed at once by done()
DefaultConstructed == phase = "done" /\ ncalls = 0

DefaultFields ==
    /\ opts.file = None
    /\ opts.manifest_path = None
    /\ opts.storage_deposit_limit = None
    /\ opts.chain = None
    /\ opts.verbosity = "Default"

\* C4 as stated: default-constructed options have the optional fields unset,
\* the default verbosity, and resolve to (Custom, "ws://localhost:9944").
C4_Original ==
    DefaultConstructed =>
        /\ DefaultFields
        /\ chain_and_endpoint(opts) =
              [chain |-> Custom, endpoint |-> DefaultUrlLiteral]

\* C4 amended: default-constructed options have the optional fields unset,
\* the default verbosity, and resolve to (Custom, "ws://localhost:9944/"),
\* the rendering of the default URL with its root path.
C4_DefaultsResolve ==
    DefaultConstructed =>
        /\ DefaultFields
        /\ chain_and_endpoint(opts) =
              [chain |-> Custom,
               endpoint |-> <<"ws", "://", "localhost", ":", "9944", "/">>]
        /\ ret.op = "chain_and_endpoint" => ret.val = chain_and_endpoint(opts)

C4_Witness ==
    /\ DefaultConstructed
    /\ Returned([chain |-> Custom,
                 endpoint |-> <<"ws", "://", "localhost", ":", "9944", "/">>])

\* the last two calls on the builder were calls of the same setter
SameSetterTwice ==
    phase = "building" /\ Len(hist) = 2 /\ hist[1].op = hist[2].op

\* C5: a setter called with v2 after the same setter was called with v1 gives
\* the finished options of that setter called once with v2.
C5_LastWriteWins ==
    SameSetterTwice =>
        Builder_done(builder) =
            Builder_done(Apply(hist[2].op, hist[2].arg, [opts |-> prev2]))

\* the first call changed the field and the second gave another value
C5_Witness ==
    /\ SameSetterTwice
    /\ hist[1].arg # hist[2].arg
    /\ prev[hist[1].op] # prev2[hist[1].op]
    /\ Builder_done(builder)[hist[2].op] # prev[hist[2].op]

\* C6: is_verifiable fails exactly when contract_artifacts fails on the same
\* options and file system, with the same error; when the artifact loads,
\* is_verifiable succeeds with the artifact's verifiable flag.
C6_IsVerifiableFollowsLoader ==
    (phase = "done" /\ ret.op = "is_verifiable") =>
        LET a == contract_artifacts(opts, ret.val.disk)
            r == ret.val.res
        IN  /\ r.ok <=> a.ok
            /\ ~a.ok => r.err = a.err
            /\ a.ok => r.val = <<a.val[1].verifiable>>

\* the loader could not parse the artifact
C6_Witness ==
    /\ phase = "done"
    /\ ret.op = "is_verifiable"
    /\ ~ret.val.res.ok
    /\ ret.val.res.err = "ArtifactParseError"

\* the options values that agree with o on the named chain and the node URL
SameTarget(o) ==
    [file : OptionOf(Files),
     manifest_path : OptionOf(Manifests),
     url : {o.url},
     signer : Signers,
     storage_deposit_limit : OptionOf(Balances),
     verbosity : Verbosities,
     chain : {o.chain}]

\* C7: options values that agree on named chain and node URL get the same
\* pair from chain_and_endpoint, whatever their other fields; repeated
\* calls on one value, with other accessor calls in between, return the
\* same pair.
C7_PureInChainAndUrl ==
    phase = "done" =>
        /\ \A o2 \in SameTarget(opts) :
              chain_and_endpoint(o2) = chain_and_endpoint(opts)
        /\ \A i \in DOMAIN ce0 : ce0[i] = chain_and_endpoint(opts)
        /\ ret.op = "chain_and_endpoint" => ret.val = ce0[1]

\* chain_and_endpoint was called twice and another accessor after it
C7_Witness ==
    /\ phase = "done"
    /\ Len(ce0) = 2
    /\ ret.op = "is_verifiable"
    /\ IsSome(opts.file)
    /\ IsSome(opts.chain)

\* C8: after a setter of an optional field is called with None, that field
\* of the finished options is unset, whatever it was before.
C8_NoneUnsets ==
    (phase = "building" /\ hist # <<>> /\ LastCall.op \in OptionalFields) =>
        (LastCall.arg = None => Builder_done(builder)[LastCall.op] = None)

\* the field held a value before the call with None
C8_Witness ==
    /\ phase = "building"
    /\ hist # <<>>
    /\ LastCall.op \in OptionalFields
    /\ LastCall.arg = None
    /\ prev[LastCall.op] # None

\* the last two calls on the builder were calls of setters of different fields
TwoSetters ==
    phase = "building" /\ Len(hist) = 2 /\ hist[1].op # hist[2].op

\* C9: two setters of different fields give the same finished options in
\* either order; the finished options hold, per field, the value of the last
\* call of its setter or the default, and so does chain_and_endpoint.
C9_OrderIndependent ==
    phase = "building" =>
        /\ TwoSetters =>
              LET swapped ==
                      Apply(hist[1].op, hist[1].arg,
                            Apply(hist[2].op, hist[2].arg, [opts |-> prev2]))
              IN  /\ Builder_done(builder) = Builder_done(swapped)
                  /\ chain_and_endpoint(Builder_done(builder)) =
                         chain_and_endpoint(Builder_done(swapped))
        /\ \A f \in Setters :
              Builder_done(builder)[f] =
                  IF lastArg[f] = None
                  THEN Builder_done(Builder_new(signer0))[f]
                  ELSE Stored(f, lastArg[f][1])

\* a named chain was set and then a node URL, both changing the builder
C9_Witness ==
    /\ TwoSetters
    /\ hist[1].op = "chain"
    /\ hist[2].op = "url"
    /\ IsSome(builder.opts.chain)
    /\ builder.opts.url # prev.url
    /\ ncalls = 3

\* C10: a setter changes its own field only and never the signer; done()
\* returns the accumulated fields as they are, with the signer given to
\* new(); an accessor changes no field and signer() returns that signer.
C10_Frame ==
    [][ /\ (phase = "building" /\ phase' = "building" /\ ncalls' = ncalls + 1) =>
              /\ \A f \in Fields \ {hist'[Len(hist')].op} :
                    builder'.opts[f] = builder.opts[f]
              /\ builder'.opts.signer = signer0
        /\ (phase = "building" /\ phase' = "done") =>
              /\ opts' = builder.opts
              /\ opts'.signer = signer0
        /\ (phase = "done" /\ phase' = "done") =>
              /\ opts' = opts
              /\ ret'.op = "signer" => ret'.val = signer0
      ]_vars

\* options with neither file nor manifest path, finished and then read
C10_Witness ==
    /\ phase = "done"
    /\ ncalls > 0
    /\ opts.file = None
    /\ opts.manifest_path = None
    /\ opts.signer = "bob"
    /\ ret.op = "contract_artifacts"

====
